---- MODULE Spec2Model ----
(***************************************************************************)
(* A model of the new_otel prototype:                                      *)
(*   - src/metrics.py: the HTTP middleware metrics_and_traces_middleware   *)
(*     and the process-wide telemetry state it rebinds on every request;   *)
(*   - src/app.py: the instrumented pipeline functions and the __main__    *)
(*     sequence load -> preprocess -> create -> train -> predict.          *)
(* The middleware runs on one cooperative event loop: a request's code     *)
(* runs without interruption between two awaits, and the only await of the *)
(* middleware is `await call_next(request)`.  The variable `running` is    *)
(* the coroutine that holds the loop.                                      *)
(***************************************************************************)
EXTENDS Integers, Sequences, FiniteSets, TLC

VARIABLES
    \* ---- src/metrics.py: module globals
    serviceInstanceID,   \* global serviceInstanceID
    tracer_provider,     \* resource of the process-wide TracerProvider
    API_CALLS,           \* global instrument, None until initialize_metrics
    API_LATENCY,         \* global instrument, None until initialize_metrics
    API_ERRORS,          \* global instrument, None until initialize_metrics
    handlers,            \* number of handlers attached to the module logger
    \* ---- src/metrics.py: the event loop and the requests in flight
    running,             \* the set holding the request whose coroutine holds the loop
    pc,                  \* position of each request in the middleware
    query,               \* the instance_id query parameter of each request
    verification_info,   \* local verification_info of each request
    resource,            \* local resource of each request
    span,                \* the request's span: none / open / ok / error
    exc,                 \* the exception caught by the except clause
    outcome,             \* what leaves the middleware: none / response / an exception
    calls,               \* API_CALLS.add(1) samples emitted by each request
    latencies,           \* API_LATENCY.record samples emitted by each request
    errors,              \* API_ERRORS.add(1) samples emitted by each request
    spanAttr,            \* the "instanceId" attribute set on the request's span
    logOrdinal,          \* n when the request was the n-th to reach initialize_logging
    infoLines,           \* lines written for the request's logger.info call
    overlapped,          \* the request was in flight together with another one
    \* ---- src/app.py: the pipeline
    file,                \* the rows of data/stock_prices.csv, None if unreadable
    ppc,                 \* position in __main__
    data,                \* __main__ data
    xy,                  \* __main__ (x, y, scaler), as returned by preprocess_data
    model,               \* __main__ model
    trained_model,       \* __main__ trained_model
    predictions,         \* __main__ predictions
    performance_counter, \* api_calls increments, per pipeline function
    error_counter,       \* api_errors increments, per pipeline function
    latency_histogram,   \* api_latency samples, per pipeline function
    raised,              \* the exception the body of each function raised, or None
    propagated,          \* the exception each function let through to its caller, or None
    crash                \* the uncaught exception that ended __main__, or None

mwVars == <<serviceInstanceID, tracer_provider, API_CALLS, API_LATENCY, API_ERRORS,
            handlers, running, pc, query, verification_info, resource, span, exc,
            outcome, calls, latencies, errors, spanAttr, logOrdinal, infoLines,
            overlapped>>

plVars == <<file, ppc, data, xy, model, trained_model, predictions,
            performance_counter, error_counter, latency_histogram, raised, propagated,
            crash>>

vars == <<mwVars, plVars>>

\* Python's None, and a present value v, for a slot that may hold either.
None == <<>>

Some(v) == <<v>>

Get(o) == o[1]

\* No exception.
NoError == "NoError"

(***************************************************************************)
(* Bounds                                                                  *)
(***************************************************************************)
MaxRequests == 3

\* Longest price series read from the file, and the number of series shapes.
MaxRows == 62

MaxSeed == 2

Requests == 1..MaxRequests

(***************************************************************************)
(* src/metrics.py                                                          *)
(***************************************************************************)
serviceName == "mlass"

serviceVersion == "1.0.0"

DefaultInstanceID == "instance-1"

\* logging.basicConfig attaches one StreamHandler to the root logger; the module
\* logger propagates to it.
RootHandlers == 1

\* `if not logger.handlers:` attaches one StreamHandler at import.
ImportHandlers == 1

\* request.query_params.get("instance_id"): absent, empty, or a value.
NoParam == "<absent>"

QueryParams == {NoParam, "", "tenant-a"}

\* request.headers.get("Authorization"): absent or a bearer token.
NoHeader == "<no header>"

AuthHeaders == {NoHeader, "Bearer key-1"}

\* request.query_params.get("instance_id", default)
QueryGet(q, default) == IF q = NoParam THEN default ELSE q

\* Python's `a or b` on strings
StrOr(a, b) == IF a = "" THEN b ELSE a

\* request.headers.get("Authorization", "Bearer default-api-key").split(" ")[-1]
ApiKey(h) ==
    IF h = NoHeader THEN "default-api-key"
    ELSE IF h = "Bearer key-1" THEN "key-1" ELSE h

ResolveInstanceID(q, current) == StrOr(QueryGet(q, current), current)

verify_instance_api(instance_id, service_api_key) ==
    [instance_id |-> instance_id, service_id |-> "service-123", app_id |-> "app-456"]

create_resource(instance_id, service_id, app_id) ==
    [service_name |-> serviceName, service_version |-> serviceVersion,
     service_instance_id |-> instance_id, service_id |-> service_id, app_id |-> app_id]

\* An instrument created by meter.create_counter / create_histogram from the
\* MeterProvider of `res`, during request r's initialize_metrics call.
Instrument(name, res, r) == [name |-> name, resource |-> res, boundBy |-> r]

\* One recorded measurement: the instrument it went to and its instanceId attribute.
Sample(instr, id) ==
    [name |-> instr.name, resource |-> instr.resource, boundBy |-> instr.boundBy,
     instanceId |-> id]

Terminal == {"SpanClosedSuccess", "SpanClosedError", "Aborted"}

InFlight(r) == pc[r] \notin ({"idle"} \cup Terminal)

MwInit ==
    /\ serviceInstanceID = DefaultInstanceID
    /\ tracer_provider = None
    /\ API_CALLS = None
    /\ API_LATENCY = None
    /\ API_ERRORS = None
    /\ handlers = ImportHandlers
    /\ running = {}
    /\ pc = [r \in Requests |-> "idle"]
    /\ query = [r \in Requests |-> NoParam]
    /\ verification_info = [r \in Requests |-> None]
    /\ resource = [r \in Requests |-> None]
    /\ span = [r \in Requests |-> "none"]
    /\ exc = [r \in Requests |-> NoError]
    /\ outcome = [r \in Requests |-> "none"]
    /\ calls = [r \in Requests |-> <<>>]
    /\ latencies = [r \in Requests |-> <<>>]
    /\ errors = [r \in Requests |-> <<>>]
    /\ spanAttr = [r \in Requests |-> "<unset>"]
    /\ logOrdinal = [r \in Requests |-> 0]
    /\ infoLines = [r \in Requests |-> 0]
    /\ overlapped = [r \in Requests |-> FALSE]

\* The framework starts the middleware coroutine of a new request when the loop is
\* free.  Requests are numbered in the order of their arrival.
Arrive(r) ==
    /\ running = {}
    /\ pc[r] = "idle"
    /\ \A s \in Requests : s < r => pc[s] # "idle"
    /\ \E q \in QueryParams : query' = [query EXCEPT ![r] = q]
    /\ pc' = [pc EXCEPT ![r] = "Init"]
    /\ running' = {r}
    /\ overlapped' = [s \in Requests |->
                        IF s = r THEN \E t \in Requests : InFlight(t)
                        ELSE overlapped[s] \/ InFlight(s)]
    /\ UNCHANGED <<serviceInstanceID, tracer_provider, API_CALLS, API_LATENCY,
                   API_ERRORS, handlers, verification_info, resource, span, exc,
                   outcome, calls, latencies, errors, spanAttr, logOrdinal, infoLines>>
    /\ UNCHANGED plVars

\* lines 149-159: the global serviceInstanceID is overwritten, then the identity
\* is verified and the resource is built from it.
ResolveIdentity(r) ==
    /\ running = {r}
    /\ pc[r] = "Init"
    /\ \E h \in AuthHeaders :
         LET sid == ResolveInstanceID(query[r], serviceInstanceID)
             info == verify_instance_api(sid, ApiKey(h))
         IN  /\ serviceInstanceID' = sid
             /\ verification_info' = [verification_info EXCEPT ![r] = Some(info)]
             /\ resource' = [resource EXCEPT ![r] =
                    Some(create_resource(info.instance_id, info.service_id, info.app_id))]
    /\ pc' = [pc EXCEPT ![r] = "IdentityResolved"]
    /\ UNCHANGED <<tracer_provider, API_CALLS, API_LATENCY, API_ERRORS, handlers,
                   running, query, span, exc, outcome, calls, latencies, errors,
                   spanAttr, logOrdinal, infoLines, overlapped>>
    /\ UNCHANGED plVars

\* An exporter/provider constructor raises: control moves to the except clause.
RaiseInMiddleware(r, e) ==
    /\ exc' = [exc EXCEPT ![r] = e]
    /\ pc' = [pc EXCEPT ![r] = "Except"]

initialize_tracing(r) ==
    /\ running = {r}
    /\ pc[r] = "IdentityResolved"
    /\ \E fault \in BOOLEAN :
         IF fault
         THEN /\ RaiseInMiddleware(r, "ExporterError")
              /\ UNCHANGED tracer_provider
         ELSE /\ tracer_provider' = Some(Get(resource[r]))
              /\ pc' = [pc EXCEPT ![r] = "TracingBound"]
              /\ UNCHANGED exc
    /\ UNCHANGED <<serviceInstanceID, API_CALLS, API_LATENCY, API_ERRORS, handlers,
                   running, query, verification_info, resource, span, outcome, calls,
                   latencies, errors, spanAttr, logOrdinal, infoLines, overlapped>>
    /\ UNCHANGED plVars

\* Faulty variant: the instruments are created once and kept by later requests.
initialize_metrics_once(r) ==
    /\ running = {r}
    /\ pc[r] = "TracingBound"
    /\ IF API_CALLS = None
       THEN /\ API_CALLS' = Some(Instrument("api_calls", Get(resource[r]), r))
            /\ API_LATENCY' = Some(Instrument("api_latency", Get(resource[r]), r))
            /\ API_ERRORS' = Some(Instrument("api_errors", Get(resource[r]), r))
       ELSE UNCHANGED <<API_CALLS, API_LATENCY, API_ERRORS>>
    /\ pc' = [pc EXCEPT ![r] = "MetricsBound"]
    /\ UNCHANGED <<serviceInstanceID, tracer_provider, handlers, running, query,
                   verification_info, resource, span, exc, outcome, calls, latencies,
                   errors, spanAttr, logOrdinal, infoLines, overlapped>>
    /\ UNCHANGED plVars

initialize_metrics(r) ==
    /\ running = {r}
    /\ pc[r] = "TracingBound"
    /\ \E fault \in BOOLEAN :
         IF fault
         THEN /\ RaiseInMiddleware(r, "ExporterError")
              /\ UNCHANGED <<API_CALLS, API_LATENCY, API_ERRORS>>
         ELSE /\ API_CALLS' = Some(Instrument("api_calls", Get(resource[r]), r))
              /\ API_LATENCY' = Some(Instrument("api_latency", Get(resource[r]), r))
              /\ API_ERRORS' = Some(Instrument("api_errors", Get(resource[r]), r))
              /\ pc' = [pc EXCEPT ![r] = "MetricsBound"]
              /\ UNCHANGED exc
    /\ UNCHANGED <<serviceInstanceID, tracer_provider, handlers, running, query,
                   verification_info, resource, span, outcome, calls, latencies,
                   errors, spanAttr, logOrdinal, infoLines, overlapped>>
    /\ UNCHANGED plVars

\* Faulty variant: a handler is attached only while the logger has none.
initialize_logging_guarded(r) ==
    /\ running = {r}
    /\ pc[r] = "MetricsBound"
    /\ handlers' = IF handlers = 0 THEN handlers + 1 ELSE handlers
    /\ logOrdinal' = [logOrdinal EXCEPT ![r] = Cardinality({s \in Requests : logOrdinal[s] > 0}) + 1]
    /\ pc' = [pc EXCEPT ![r] = "TelemetryBound"]
    /\ UNCHANGED <<serviceInstanceID, tracer_provider, API_CALLS, API_LATENCY,
                   API_ERRORS, running, query, verification_info, resource, span, exc,
                   outcome, calls, latencies, errors, spanAttr, infoLines, overlapped>>
    /\ UNCHANGED plVars

initialize_logging(r) ==
    /\ running = {r}
    /\ pc[r] = "MetricsBound"
    /\ \E fault \in BOOLEAN :
         IF fault
         THEN /\ RaiseInMiddleware(r, "ExporterError")
              /\ UNCHANGED <<handlers, logOrdinal>>
         ELSE /\ handlers' = handlers + 1
              /\ logOrdinal' = [logOrdinal EXCEPT ![r] = handlers' - ImportHandlers]
              /\ pc' = [pc EXCEPT ![r] = "TelemetryBound"]
              /\ UNCHANGED exc
    /\ UNCHANGED <<serviceInstanceID, tracer_provider, API_CALLS, API_LATENCY,
                   API_ERRORS, running, query, verification_info, resource, span,
                   outcome, calls, latencies, errors, spanAttr, infoLines, overlapped>>
    /\ UNCHANGED plVars

\* lines 164-169: start_as_current_span(request.url.path) and its attributes.
OpenSpan(r) ==
    /\ running = {r}
    /\ pc[r] = "TelemetryBound"
    /\ span' = [span EXCEPT ![r] = "open"]
    /\ spanAttr' = [spanAttr EXCEPT ![r] = Get(verification_info[r]).instance_id]
    /\ pc' = [pc EXCEPT ![r] = "SpanOpen"]
    /\ UNCHANGED <<serviceInstanceID, tracer_provider, API_CALLS, API_LATENCY,
                   API_ERRORS, handlers, running, query, verification_info, resource,
                   exc, outcome, calls, latencies, errors, logOrdinal, infoLines,
                   overlapped>>
    /\ UNCHANGED plVars

\* Faulty variant: the handler is awaited before the span is opened.
CallNext_BeforeSpan(r) ==
    /\ running = {r}
    /\ pc[r] \in {"TelemetryBound", "SpanOpen"}
    /\ pc' = [pc EXCEPT ![r] = "HandlerInvoked"]
    /\ running' = {}
    /\ UNCHANGED <<serviceInstanceID, tracer_provider, API_CALLS, API_LATENCY,
                   API_ERRORS, handlers, query, verification_info, resource, span,
                   exc, outcome, calls, latencies, errors, spanAttr, logOrdinal,
                   infoLines, overlapped>>
    /\ UNCHANGED plVars

\* line 171: `await call_next(request)` suspends the coroutine and frees the loop.
CallNext(r) ==
    /\ running = {r}
    /\ pc[r] = "SpanOpen"
    /\ pc' = [pc EXCEPT ![r] = "HandlerInvoked"]
    /\ running' = {}
    /\ UNCHANGED <<serviceInstanceID, tracer_provider, API_CALLS, API_LATENCY,
                   API_ERRORS, handlers, query, verification_info, resource, span,
                   exc, outcome, calls, latencies, errors, spanAttr, logOrdinal,
                   infoLines, overlapped>>
    /\ UNCHANGED plVars

\* The downstream handler returned a response: the coroutine resumes after line 171.
HandlerReturns(r) ==
    /\ running = {}
    /\ pc[r] = "HandlerInvoked"
    /\ pc' = [pc EXCEPT ![r] = "HandlerReturned"]
    /\ running' = {r}
    /\ UNCHANGED <<serviceInstanceID, tracer_provider, API_CALLS, API_LATENCY,
                   API_ERRORS, handlers, query, verification_info, resource, span,
                   exc, outcome, calls, latencies, errors, spanAttr, logOrdinal,
                   infoLines, overlapped>>
    /\ UNCHANGED plVars

\* The downstream handler raised: the with-block exits through the exception, which
\* marks the span as failed, and control moves to the except clause.
HandlerRaises(r) ==
    /\ running = {}
    /\ pc[r] = "HandlerInvoked"
    /\ span' = [span EXCEPT ![r] = "error"]
    /\ RaiseInMiddleware(r, "HandlerError")
    /\ running' = {r}
    /\ UNCHANGED <<serviceInstanceID, tracer_provider, API_CALLS, API_LATENCY,
                   API_ERRORS, handlers, query, verification_info, resource, outcome,
                   calls, latencies, errors, spanAttr, logOrdinal, infoLines, overlapped>>
    /\ UNCHANGED plVars

\* lines 173-211: the metrics of the success path, logger.info, and the response.
\* logger.info is written once by every handler of the module logger and once by
\* every handler of the root logger.
RecordSuccess(r) ==
    /\ running = {r}
    /\ pc[r] = "HandlerReturned"
    /\ calls' = [calls EXCEPT ![r] =
                    Append(@, Sample(Get(API_CALLS), Get(verification_info[r]).instance_id))]
    /\ latencies' = [latencies EXCEPT ![r] =
                    Append(@, Sample(Get(API_LATENCY), Get(verification_info[r]).instance_id))]
    /\ infoLines' = [infoLines EXCEPT ![r] = handlers + RootHandlers]
    /\ span' = [span EXCEPT ![r] = "ok"]
    /\ outcome' = [outcome EXCEPT ![r] = "response"]
    /\ pc' = [pc EXCEPT ![r] = "SpanClosedSuccess"]
    /\ running' = {}
    /\ UNCHANGED <<serviceInstanceID, tracer_provider, API_CALLS, API_LATENCY,
                   API_ERRORS, handlers, query, verification_info, resource, exc,
                   errors, spanAttr, logOrdinal, overlapped>>
    /\ UNCHANGED plVars

\* lines 213-226: API_ERRORS.add(1, ...), logger.error, raise e.  While API_ERRORS
\* is still None, `API_ERRORS.add` raises AttributeError inside the except clause.
ExceptClause(r) ==
    /\ running = {r}
    /\ pc[r] = "Except"
    /\ IF API_ERRORS = None
       THEN /\ outcome' = [outcome EXCEPT ![r] = "AttributeError"]
            /\ UNCHANGED errors
       ELSE /\ errors' = [errors EXCEPT ![r] =
                    Append(@, Sample(Get(API_ERRORS),
                        IF verification_info[r] # None
                        THEN Get(verification_info[r]).instance_id
                        ELSE serviceInstanceID))]
            /\ outcome' = [outcome EXCEPT ![r] = exc[r]]
    /\ pc' = [pc EXCEPT ![r] = IF span[r] = "error" THEN "SpanClosedError" ELSE "Aborted"]
    /\ running' = {}
    /\ UNCHANGED <<serviceInstanceID, tracer_provider, API_CALLS, API_LATENCY,
                   API_ERRORS, handlers, query, verification_info, resource, span,
                   exc, calls, latencies, spanAttr, logOrdinal, infoLines, overlapped>>
    /\ UNCHANGED plVars

metrics_and_traces_middleware(r) ==
    \/ ResolveIdentity(r)
    \/ initialize_tracing(r)
    \/ initialize_metrics(r)
    \/ initialize_logging(r)
    \/ OpenSpan(r)
    \/ CallNext(r)
    \/ HandlerReturns(r)
    \/ HandlerRaises(r)
    \/ RecordSuccess(r)
    \/ ExceptClause(r)

Next == \E r \in Requests : Arrive(r) \/ metrics_and_traces_middleware(r)

(***************************************************************************)
(* src/app.py                                                              *)
(***************************************************************************)
sequence_length == 60

RowCap == 5000

Functions == {"load_data", "preprocess_data", "create_model", "train_model", "predict"}

\* The Close column of a file of n rows; seed 0 is a flat series.
Rows(n, seed) == [i \in 1..n |-> 100 + ((i * seed) % 7)]

Files == {None} \cup {Some(Rows(n, seed)) : n \in 0..MaxRows, seed \in 0..MaxSeed}

\* The outcome of a function body: a value, or the exception it raised.
Ok(v) == [value |-> Some(v), exception |-> NoError]

Raise(e) == [value |-> None, exception |-> e]

SeqMin(s) == CHOOSE m \in {s[i] : i \in DOMAIN s} : \A i \in DOMAIN s : m <= s[i]

SeqMax(s) == CHOOSE m \in {s[i] : i \in DOMAIN s} : \A i \in DOMAIN s : m >= s[i]

\* MinMaxScaler(feature_range=(0, 1)).fit: a zero range is scaled by 1.
MinMaxScaler(s) ==
    [data_min |-> SeqMin(s),
     range |-> IF SeqMax(s) = SeqMin(s) THEN 1 ELSE SeqMax(s) - SeqMin(s)]

\* scaler.transform: (v - min) / range, kept as an exact fraction.
fit_transform(s) ==
    LET scaler == MinMaxScaler(s)
    IN  [i \in DOMAIN s |-> [num |-> s[i] - scaler.data_min, den |-> scaler.range]]

\* Python's range(a, b) and the slice s[lo:hi] of 0-based half-open positions.
PyRange(a, b) == [k \in 1..(IF b > a THEN b - a ELSE 0) |-> a + k - 1]

Slice(s, lo, hi) == SubSeq(s, lo + 1, hi)

\* Faulty variant: the window is cut one position late and includes its own target.
Windows_shifted(scaled) ==
    LET is == PyRange(sequence_length, Len(scaled))
    IN  [k \in DOMAIN is |-> Slice(scaled, is[k] - sequence_length + 1, is[k] + 1)]

\* x.append(scaled_data[i-sequence_length:i, 0]) for i in range(sequence_length, len)
Windows(scaled) ==
    LET is == PyRange(sequence_length, Len(scaled))
    IN  [k \in DOMAIN is |-> Slice(scaled, is[k] - sequence_length, is[k])]

\* y.append(scaled_data[i, 0]) for i in range(sequence_length, len)
Targets(scaled) ==
    LET is == PyRange(sequence_length, Len(scaled))
    IN  [k \in DOMAIN is |-> scaled[is[k] + 1]]

\* pd.read_csv(file_path); data[:5000]
load_data_body(f) ==
    IF f = None THEN Raise("FileNotFoundError")
    ELSE Ok(Slice(Get(f), 0, IF Len(Get(f)) < RowCap THEN Len(Get(f)) ELSE RowCap))

\* lines 77-88: data['Close'] of None raises TypeError, the scaler rejects an empty
\* column with ValueError, and x.shape[1] of an empty array raises IndexError.
preprocess_data_body(d) ==
    IF d = None THEN Raise("TypeError")
    ELSE IF Len(Get(d)) = 0 THEN Raise("ValueError")
    ELSE LET scaled == fit_transform(Get(d))
             x == Windows(scaled)
             y == Targets(scaled)
         IN  IF Len(x) = 0 THEN Raise("IndexError")
             ELSE Ok([x |-> x, y |-> y, scaler |-> MinMaxScaler(Get(d))])

\* lines 102-108: the fixed topology; `fault` is a failure inside the framework.
create_model_body(input_shape, fault) ==
    IF fault THEN Raise("FrameworkError")
    ELSE Ok([layers |-> <<"LSTM50seq", "LSTM50", "Dropout", "Dense1">>,
             input_shape |-> input_shape, fitted |-> FALSE])

\* line 122: model.fit(...); None has no attribute fit.
train_model_body(m, x, y, fault) ==
    IF m = None THEN Raise("AttributeError")
    ELSE IF fault THEN Raise("FrameworkError")
    ELSE Ok([Get(m) EXCEPT !.fitted = TRUE])

\* Faulty variant: a missing model is not noticed and outputs are produced anyway.
predict_body_unguarded(m, x_test, fault) ==
    IF fault THEN Raise("FrameworkError")
    ELSE Ok([k \in DOMAIN x_test |-> "float"])

\* line 136: model.predict(x_test): one output per window; None has no attribute predict.
predict_body(m, x_test, fault) ==
    IF m = None THEN Raise("AttributeError")
    ELSE IF fault THEN Raise("FrameworkError")
    ELSE Ok([k \in DOMAIN x_test |-> "float"])

\* record_api_call() on the success path of function f
record_api_call(f, out) ==
    performance_counter' =
        [performance_counter EXCEPT ![f] = @ + (IF out.exception = NoError THEN 1 ELSE 0)]

\* record_error() in the except clause of function f
record_error(f, out) ==
    error_counter' =
        [error_counter EXCEPT ![f] = @ + (IF out.exception = NoError THEN 0 ELSE 1)]

\* Faulty variant: the latency is recorded at the end of the try body, not in finally.
track_latency_on_success(f, out) ==
    latency_histogram' =
        [latency_histogram EXCEPT ![f] = @ + (IF out.exception = NoError THEN 1 ELSE 0)]

\* track_latency(start_time) in the finally clause of function f
track_latency(f, out) ==
    latency_histogram' = [latency_histogram EXCEPT ![f] = @ + 1]

\* `except Exception as e:` logs and falls through: nothing reaches the caller.
except_clause(f, out) ==
    /\ raised' = [raised EXCEPT ![f] = out.exception]
    /\ propagated' = [propagated EXCEPT ![f] = NoError]

\* The try / except / finally frame shared by the five pipeline functions.
Instrumented(f, out) ==
    /\ record_api_call(f, out)
    /\ record_error(f, out)
    /\ except_clause(f, out)
    /\ track_latency(f, out)

\* What the function hands to its caller: the body's value, or None after an error.
Returned(out) == IF out.exception = NoError THEN out.value ELSE None

PlInit ==
    /\ file \in Files
    /\ ppc = "load_data"
    /\ data = None
    /\ xy = None
    /\ model = None
    /\ trained_model = None
    /\ predictions = None
    /\ performance_counter = [f \in Functions |-> 0]
    /\ error_counter = [f \in Functions |-> 0]
    /\ latency_histogram = [f \in Functions |-> 0]
    /\ raised = [f \in Functions |-> NoError]
    /\ propagated = [f \in Functions |-> NoError]
    /\ crash = NoError

\* The pipeline is not started in the middleware specification.
PlOff ==
    /\ file = None
    /\ ppc = "off"
    /\ data = None
    /\ xy = None
    /\ model = None
    /\ trained_model = None
    /\ predictions = None
    /\ performance_counter = [f \in Functions |-> 0]
    /\ error_counter = [f \in Functions |-> 0]
    /\ latency_histogram = [f \in Functions |-> 0]
    /\ raised = [f \in Functions |-> NoError]
    /\ propagated = [f \in Functions |-> NoError]
    /\ crash = NoError

\* line 148: data = load_data("data/stock_prices.csv")
load_data ==
    /\ ppc = "load_data"
    /\ LET out == load_data_body(file)
       IN  /\ Instrumented("load_data", out)
           /\ data' = Returned(out)
    /\ ppc' = "preprocess_data"
    /\ UNCHANGED <<file, xy, model, trained_model, predictions, crash>>
    /\ UNCHANGED mwVars

\* line 149: x, y, scaler = preprocess_data(data); unpacking None raises TypeError.
preprocess_data ==
    /\ ppc = "preprocess_data"
    /\ LET out == preprocess_data_body(data)
       IN  /\ Instrumented("preprocess_data", out)
           /\ xy' = Returned(out)
           /\ IF Returned(out) = None
              THEN /\ crash' = "TypeError"
                   /\ ppc' = "crashed"
              ELSE /\ crash' = NoError
                   /\ ppc' = "create_model"
    /\ UNCHANGED <<file, data, model, trained_model, predictions>>
    /\ UNCHANGED mwVars

\* line 150: model = create_model((x.shape[1], 1))
create_model ==
    /\ ppc = "create_model"
    /\ \E fault \in BOOLEAN :
         LET out == create_model_body(<<Len(Get(xy).x[1]), 1>>, fault)
         IN  /\ Instrumented("create_model", out)
             /\ model' = Returned(out)
    /\ ppc' = "train_model"
    /\ UNCHANGED <<file, data, xy, trained_model, predictions, crash>>
    /\ UNCHANGED mwVars

\* line 151: trained_model = train_model(model, x, y)
train_model ==
    /\ ppc = "train_model"
    /\ \E fault \in BOOLEAN :
         LET out == train_model_body(model, Get(xy).x, Get(xy).y, fault)
         IN  /\ Instrumented("train_model", out)
             /\ trained_model' = Returned(out)
    /\ ppc' = "predict"
    /\ UNCHANGED <<file, data, xy, model, predictions, crash>>
    /\ UNCHANGED mwVars

\* lines 152-153: predictions = predict(trained_model, x); "Prediction complete"
predict ==
    /\ ppc = "predict"
    /\ \E fault \in BOOLEAN :
         LET out == predict_body(trained_model, Get(xy).x, fault)
         IN  /\ Instrumented("predict", out)
             /\ predictions' = Returned(out)
    /\ ppc' = "done"
    /\ UNCHANGED <<file, data, xy, model, trained_model, crash>>
    /\ UNCHANGED mwVars

PipelineNext == load_data \/ preprocess_data \/ create_model \/ train_model \/ predict

Init == MwInit /\ PlOff

Spec == Init /\ [][Next]_vars

PipelineInit == MwInit /\ PlInit

PipelineSpec == PipelineInit /\ [][PipelineNext]_vars

(***************************************************************************)
(* Properties of the middleware, checked under Spec                        *)
(***************************************************************************)
Closed == {"SpanClosedSuccess", "SpanClosedError"}

\* C1: every request whose handler returned or raised has emitted exactly one
\* latency sample and exactly one call-count increment; it has emitted exactly
\* one error increment if the handler raised and none if it returned.
C1_OneLatencyOneCallPerRequest ==
    \A r \in Requests :
        pc[r] \in Closed =>
            /\ Len(latencies[r]) = 1
            /\ Len(calls[r]) = 1
            /\ Len(errors[r]) = (IF pc[r] = "SpanClosedError" THEN 1 ELSE 0)

\* C5: whenever an exception was raised inside the middleware, the span is
\* marked failed, exactly one error count is recorded, and the exception that
\* leaves the middleware is the one that was raised.
C5_SameExceptionReraised ==
    \A r \in Requests :
        (pc[r] \in Terminal /\ exc[r] # NoError) =>
            /\ span[r] = "error"
            /\ Len(errors[r]) = 1
            /\ outcome[r] = exc[r]

\* The steps of a request through the middleware phases, in order.
PhaseSteps ==
    { <<"idle", "Init">>, <<"Init", "IdentityResolved">>,
      <<"IdentityResolved", "TracingBound">>, <<"TracingBound", "MetricsBound">>,
      <<"MetricsBound", "TelemetryBound">>, <<"TelemetryBound", "SpanOpen">>,
      <<"SpanOpen", "HandlerInvoked">>, <<"HandlerInvoked", "HandlerReturned">>,
      <<"HandlerReturned", "SpanClosedSuccess">>, <<"HandlerInvoked", "Except">>,
      <<"IdentityResolved", "Except">>, <<"TracingBound", "Except">>,
      <<"MetricsBound", "Except">>, <<"Except", "SpanClosedError">>,
      <<"Except", "Aborted">> }

C6_Step(r) ==
    /\ pc'[r] # pc[r] => <<pc[r], pc'[r]>> \in PhaseSteps
    \* the handler is invoked only with the identity resolved, tracing, metrics
    \* and logging bound to the request's resource, and the span open
    /\ (pc[r] # "HandlerInvoked" /\ pc'[r] = "HandlerInvoked") =>
            /\ verification_info[r] # None
            /\ resource[r] # None
            /\ tracer_provider = resource[r]
            /\ API_CALLS # None /\ Get(API_CALLS).boundBy = r
            /\ Get(API_CALLS).resource = Get(resource[r])
            /\ logOrdinal[r] > 0
            /\ span[r] = "open"
    \* the success-path metrics are recorded only after the handler has returned
    /\ (calls'[r] # calls[r] \/ latencies'[r] # latencies[r]) => pc[r] = "HandlerReturned"
    \* a request whose span was opened never ends outside the two closed states,
    \* and a closed state is final
    /\ (span[r] # "none" /\ pc'[r] \in Terminal) => pc'[r] \in Closed
    /\ pc'[r] = "SpanClosedSuccess" => (span'[r] = "ok" /\ outcome'[r] = "response")
    /\ pc'[r] = "SpanClosedError" => (span'[r] = "error" /\ outcome'[r] # "response")
    /\ pc[r] \in Terminal => pc'[r] = pc[r]

\* C6: each request moves through the phases Init -> IdentityResolved ->
\* TelemetryBound -> SpanOpen -> HandlerInvoked -> SpanClosed-Success or
\* SpanClosed-Error in that order: the handler is never invoked before identity,
\* telemetry binding and span opening; success metrics are recorded only after
\* the handler returned; a request that reached SpanOpen ends in exactly one of
\* the two closed states.
C6_PhaseOrder == [][\A r \in Requests : C6_Step(r)]_vars

C6_BothClosedStatesReached ==
    \E r, s \in Requests : pc[r] = "SpanClosedSuccess" /\ pc[s] = "SpanClosedError"

OnOwnInstrument(r, sample) ==
    /\ sample.boundBy = r
    /\ sample.resource = Get(resource[r])

\* C7: a request that was never in flight together with another request records
\* its call count and latency on the instruments its own initialize_metrics call
\* created from its own resource; with concurrent requests this fails (witness).
C7_SequentialOwnInstruments ==
    \A r \in Requests :
        ~overlapped[r] =>
            /\ \A i \in DOMAIN calls[r] : OnOwnInstrument(r, calls[r][i])
            /\ \A i \in DOMAIN latencies[r] : OnOwnInstrument(r, latencies[r][i])

\* The race of C7: a request recorded its call count and latency on instruments
\* that another request bound to a different resource.
C7_RecordedOnOtherResource ==
    \E r \in Requests :
        /\ overlapped[r]
        /\ Len(calls[r]) = 1 /\ Len(latencies[r]) = 1
        /\ calls[r][1].boundBy # r /\ calls[r][1].resource # Get(resource[r])
        /\ latencies[r][1].boundBy # r /\ latencies[r][1].resource # Get(resource[r])

\* The instance id a request's own parameters stand for.
ExpectedInstanceID(q) == IF q \in {NoParam, ""} THEN DefaultInstanceID ELSE q

\* C8: the instance id in a request's resource, span attributes and metric
\* attributes depends only on that request's instance_id parameter (the default
\* "instance-1" when it is absent or empty), never on an earlier request's.
C8_IdentityFromOwnRequest ==
    \A r \in Requests :
        /\ resource[r] # None =>
              Get(resource[r]).service_instance_id = ExpectedInstanceID(query[r])
        /\ span[r] # "none" => spanAttr[r] = ExpectedInstanceID(query[r])
        /\ \A i \in DOMAIN calls[r] : calls[r][i].instanceId = ExpectedInstanceID(query[r])

ReachedLogging == {r \in Requests : logOrdinal[r] > 0}

\* C10 (amended): every request that reaches initialize_logging adds one handler
\* and none is removed, so the module logger holds one handler from import plus
\* one per such request; the logger.info call of the N-th such request is written
\* by every handler attached at that time, at least N + 1, and once more by the
\* root logger's handler: N + 2 lines when no other request was in flight.
C10_HandlersGrow ==
    /\ handlers = ImportHandlers + Cardinality(ReachedLogging)
    /\ \A r \in ReachedLogging : handlers >= logOrdinal[r] + ImportHandlers
    /\ \A r, s \in ReachedLogging : r # s => logOrdinal[r] # logOrdinal[s]
    /\ \A r \in Requests :
          infoLines[r] > 0 =>
              /\ infoLines[r] >= logOrdinal[r] + ImportHandlers + RootHandlers
              /\ ~overlapped[r] =>
                    infoLines[r] = logOrdinal[r] + ImportHandlers + RootHandlers

C10_SecondRequestLogged ==
    \E r \in Requests :
        /\ logOrdinal[r] = 2
        /\ handlers = 3
        /\ infoLines[r] = 4

\* C10 (as stated): after N requests the logger holds N + 1 handlers and the
\* logger.info call of the N-th request is emitted N + 1 times.
C10_InfoEmittedNPlusOne ==
    /\ handlers = 1 + Cardinality(ReachedLogging)
    /\ \A r \in Requests : infoLines[r] > 0 => infoLines[r] = logOrdinal[r] + 1

(***************************************************************************)
(* Properties of the pipeline, checked under PipelineSpec                  *)
(***************************************************************************)
PipelineOrder == <<"load_data", "preprocess_data", "create_model", "train_model", "predict", "done">>

Position(name) == CHOOSE i \in DOMAIN PipelineOrder : PipelineOrder[i] = name

\* Function f has been called and has returned.
Invoked(f) ==
    IF ppc = "crashed" THEN f \in {"load_data", "preprocess_data"}
    ELSE Position(ppc) > Position(f)

\* What the call of f handed to __main__.
Result(f) ==
    CASE f = "load_data" -> data
      [] f = "preprocess_data" -> xy
      [] f = "create_model" -> model
      [] f = "train_model" -> trained_model
      [] f = "predict" -> predictions

\* C2: a price series of length n >= lookback + 1 yields exactly n - lookback
\* windows, each of length lookback; window k holds the scaled values at
\* positions k .. k + lookback - 1 and its target is the scaled value at
\* position k + lookback.
C2_WindowsOfSeries ==
    (Invoked("preprocess_data") /\ data # None
        /\ Len(Get(data)) >= sequence_length + 1) =>
            /\ xy # None
            /\ LET n == Len(Get(data))
                   scaled == fit_transform(Get(data))
                   x == Get(xy).x
                   y == Get(xy).y
               IN  /\ Len(x) = n - sequence_length
                   /\ Len(y) = n - sequence_length
                   /\ \A k \in 1..(n - sequence_length) :
                        /\ Len(x[k]) = sequence_length
                        /\ \A j \in 1..sequence_length : x[k][j] = scaled[k + j - 1]
                        /\ y[k] = scaled[k + sequence_length]

C2_TwoDistinctWindows ==
    /\ ppc = "create_model"
    /\ Len(Get(data)) = sequence_length + 2
    /\ Len(Get(xy).x) = 2
    /\ Get(xy).x[1] # Get(xy).x[2]
    /\ Get(xy).y[1] # Get(xy).y[2]

C4_InsufficientDataRaised ==
    (Invoked("preprocess_data") /\ data # None
        /\ Len(Get(data)) < sequence_length) =>
            /\ propagated["preprocess_data"] = "InsufficientData"
            /\ crash = "InsufficientData"

\* C9: every invocation of a pipeline function records exactly one latency
\* sample and exactly one of api_calls / api_errors: api_calls exactly when the
\* body raised nothing, api_errors exactly when it raised; a raised exception
\* is swallowed and the function returns None.
C9_OneLatencyOneOutcome ==
    \A f \in Functions :
        IF Invoked(f)
        THEN /\ latency_histogram[f] = 1
             /\ performance_counter[f] + error_counter[f] = 1
             /\ performance_counter[f] = 1 <=> raised[f] = NoError
             /\ propagated[f] = NoError
             /\ raised[f] # NoError => Result(f) = None
             /\ raised[f] = NoError => Result(f) # None
        ELSE latency_histogram[f] = 0 /\ performance_counter[f] = 0 /\ error_counter[f] = 0

C9_BothPathsTaken ==
    /\ ppc = "done"
    /\ raised["create_model"] = NoError /\ performance_counter["create_model"] = 1
    /\ raised["train_model"] # NoError /\ error_counter["train_model"] = 1
    /\ latency_histogram["train_model"] = 1
====
